---- MODULE Spec2Model ----
(***************************************************************************)
(* Model of the soyshell parser and evaluator (src/src/Parser.c).          *)
(*                                                                         *)
(* A C string is modelled as the sequence of its characters before the     *)
(* terminating NUL; a character is a one-character TLA+ string.  Indices   *)
(* are 0-based as in the C code; At(s, i) reads s[i].                      *)
(***************************************************************************)
EXTENDS Integers, Sequences, FiniteSets, TLC

INVALID_POS == -1
INIT_CONSTS == 8
BUFF_MAX == 1024

\* The terminating NUL of a C string (read at index strlen).
NUL == "NUL"

\* ------------------------------------------------------------------------
\* Bounds of the model
\* ------------------------------------------------------------------------
\* Maximum number of whitespace-separated tokens of an input line.
MaxToks == 4
\* Depth of the C call stack at which the process dies of stack overflow.
MaxStack == 10

\* ------------------------------------------------------------------------
\* String primitives
\* ------------------------------------------------------------------------
strlen(s) == Len(s)

At(s, i) == IF i >= 0 /\ i < Len(s) THEN s[i + 1] ELSE NUL

isspace(c) == c = " "

isalpha(c) == c \in {"a", "b", "A", "B", "P", "T", "H", "x", "y", "z"}

isalnum(c) == isalpha(c) \/ c \in {"0", "1"}

\* n characters of s starting at 0-based index from (strncpy + terminator).
Sub(s, from, n) == SubSeq(s, from + 1, from + n)

\* while (pos2 > pos1 && isspace(s[pos2])) --pos2;
RECURSIVE TrimEnd(_, _, _)
TrimEnd(s, pos1, pos2) ==
    IF pos2 > pos1 /\ isspace(At(s, pos2)) THEN TrimEnd(s, pos1, pos2 - 1) ELSE pos2

\* while (i <= pos2 && isspace(s[i])) ++i;
RECURSIVE SkipSpace(_, _, _)
SkipSpace(s, i, pos2) ==
    IF i <= pos2 /\ isspace(At(s, i)) THEN SkipSpace(s, i + 1, pos2) ELSE i

\* while (i <= pos2 && !isspace(s[i])) ++i;
RECURSIVE SkipToken(_, _, _)
SkipToken(s, i, pos2) ==
    IF i <= pos2 /\ ~isspace(At(s, i)) THEN SkipToken(s, i + 1, pos2) ELSE i

\* ------------------------------------------------------------------------
\* Operator recognition
\* ------------------------------------------------------------------------
isOp(s) ==
    IF strlen(s) > 2 THEN FALSE
    ELSE IF strlen(s) = 1 THEN s[1] = ";"
    ELSE s \in {<<"&", "&">>, <<"|", "|">>}

isPipe(s) == At(s, 0) = "|"

containsOp(s) ==
    \E i \in 0..(strlen(s) - 1) :
        \/ isOp(Sub(s, i, 1))
        \/ strlen(s) - i >= 2 /\ isOp(Sub(s, i, 2))

\* ------------------------------------------------------------------------
\* Brace and quote matching
\* ------------------------------------------------------------------------
RECURSIVE matchBraceLoop(_, _, _, _)
matchBraceLoop(s, i, count, maxPos) ==
    IF count > 0 /\ i < maxPos
    THEN LET c == At(s, i + 1)
             c1 == IF c = "{" THEN count + 1 ELSE count
             c2 == IF c = "}" THEN c1 - 1 ELSE c1
         IN matchBraceLoop(s, i + 1, c2, maxPos)
    ELSE [count |-> count, i |-> i]

\* Returns [ok, pos]: pos is moved to the matching brace only on success.
matchBrace(s, pos, maxPos) ==
    IF At(s, pos) # "{" THEN [ok |-> FALSE, pos |-> pos]
    ELSE LET r == matchBraceLoop(s, pos, 1, maxPos)
         IN IF r.count # 0 THEN [ok |-> FALSE, pos |-> pos]
            ELSE [ok |-> TRUE, pos |-> r.i]

\* while (i < maxPos) { ++i; if (s[i] == '"') break; }
RECURSIVE matchQuoteLoop(_, _, _)
matchQuoteLoop(s, i, maxPos) ==
    IF i < maxPos
    THEN IF At(s, i + 1) = "\"" THEN i + 1 ELSE matchQuoteLoop(s, i + 1, maxPos)
    ELSE i

\* Returns [ok, pos]: pos is moved to the closing quote only on success.
\* With pos = maxPos the loop body never runs and s[i] is the opening quote
\* itself, so the call succeeds without moving pos.
matchQuote(s, pos, maxPos) ==
    IF At(s, pos) # "\"" THEN [ok |-> FALSE, pos |-> pos]
    ELSE LET i == matchQuoteLoop(s, pos, maxPos)
         IN IF At(s, i) # "\"" THEN [ok |-> FALSE, pos |-> pos]
            ELSE [ok |-> TRUE, pos |-> i]

\* ------------------------------------------------------------------------
\* parseExpr: split an expression into left statement, operator, right
\* ------------------------------------------------------------------------
\* The token loop: returns the positions of the first operator token.
RECURSIVE findOp(_, _, _)
findOp(expr, i, pos2) ==
    IF i <= pos2
    THEN LET tokPos1 == SkipSpace(expr, i, pos2)
             j == SkipToken(expr, tokPos1, pos2)
             tokPos2 == j - 1
             token == Sub(expr, tokPos1, tokPos2 - tokPos1 + 1)
         IN IF isOp(token)
            THEN [opPos1 |-> tokPos1, opPos2 |-> tokPos2, i |-> j]
            ELSE findOp(expr, j, pos2)
    ELSE [opPos1 |-> INVALID_POS, opPos2 |-> INVALID_POS, i |-> i]

parseExpr(expr) ==
    LET none == [ok |-> TRUE, s |-> <<>>, op |-> <<>>, e |-> <<>>]
        pos2 == TrimEnd(expr, 0, strlen(expr) - 1)
        pos1 == SkipSpace(expr, 0, pos2)
        mb == matchBrace(expr, pos1, pos2)
        start == IF At(expr, pos1) = "{" THEN mb.pos + 1 ELSE pos1
        f == findOp(expr, start, pos2)
        expStart == SkipSpace(expr, f.i, pos2)
    IN IF strlen(expr) = 0 THEN none
       ELSE IF pos1 > pos2 THEN none
       ELSE IF At(expr, pos1) = "{" /\ ~mb.ok THEN [none EXCEPT !.ok = FALSE]
       ELSE IF f.opPos1 = INVALID_POS
            THEN [none EXCEPT !.s = Sub(expr, pos1, pos2 - pos1 + 1)]
       ELSE [ok |-> TRUE,
             s |-> Sub(expr, pos1, (f.opPos1 - 1) - pos1 + 1),
             op |-> Sub(expr, f.opPos1, f.opPos2 - f.opPos1 + 1),
             e |-> Sub(expr, expStart, pos2 - expStart + 1)]

\* ------------------------------------------------------------------------
\* parseS: classify a statement as braced expression or command
\* ------------------------------------------------------------------------
\* Returns [ok, e, cmd, s]: s is the caller's buffer after the in-place
\* truncation s[pos2 - pos1 + 1] = '\0'.
parseS(s) ==
    LET pos2 == TrimEnd(s, 0, strlen(s) - 1)
        pos1 == SkipSpace(s, 0, pos2)
        b1 == pos1 + 1
        b2 == TrimEnd(s, b1, pos2 - 1)
    IN IF strlen(s) = 0
       THEN [ok |-> FALSE, e |-> <<>>, cmd |-> <<>>, s |-> s]
       ELSE IF containsOp(s)
       THEN [ok |-> TRUE, e |-> Sub(s, pos1, pos2 - pos1 + 1), cmd |-> <<>>,
             s |-> Sub(s, 0, pos2 - pos1 + 1)]
       ELSE IF At(s, pos1) = "{"
       THEN IF At(s, pos2) # "}"
            THEN [ok |-> FALSE, e |-> <<>>, cmd |-> <<>>, s |-> s]
            ELSE [ok |-> TRUE, e |-> Sub(s, b1, b2 - b1 + 1), cmd |-> <<>>,
                  s |-> Sub(s, 0, b2 - b1 + 1)]
       ELSE [ok |-> TRUE, e |-> <<>>, cmd |-> Sub(s, pos1, pos2 - pos1 + 1),
             s |-> Sub(s, 0, pos2 - pos1 + 1)]

\* ------------------------------------------------------------------------
\* parseInvoke: split an invocation into command segments at pipe tokens
\* ------------------------------------------------------------------------
\* while (i > 0 && isspace(s[i])) --i;
RECURSIVE BackSpace(_, _)
BackSpace(s, i) ==
    IF i > 0 /\ isspace(At(s, i)) THEN BackSpace(s, i - 1) ELSE i

\* The token loop.  ub marks strncpy called with a negative length
\* (undefined behaviour: the segment before a pipe token is empty).
RECURSIVE parseInvokeLoop(_, _, _, _, _)
parseInvokeLoop(s, i, pos1, pos2, cmds) ==
    IF i <= pos2
    THEN LET tokPos1 == SkipSpace(s, i, pos2)
             tokPos2 == SkipToken(s, tokPos1, pos2)
             token == Sub(s, tokPos1, tokPos2 - tokPos1)
             k == BackSpace(s, tokPos1 - 1)
         IN IF isPipe(token)
            THEN IF tokPos1 - 1 = -1
                 THEN [ok |-> FALSE, ub |-> FALSE, cmds |-> cmds, numPipes |-> Len(cmds)]
                 ELSE IF k - pos1 + 1 < 0
                 THEN [ok |-> FALSE, ub |-> TRUE, cmds |-> cmds, numPipes |-> Len(cmds)]
                 ELSE parseInvokeLoop(s, SkipSpace(s, tokPos2, pos2),
                                      SkipSpace(s, tokPos2, pos2), pos2,
                                      Append(cmds, Sub(s, pos1, k - pos1 + 1)))
            ELSE parseInvokeLoop(s, SkipSpace(s, tokPos2, pos2), pos1, pos2, cmds)
    ELSE [ok |-> TRUE, ub |-> FALSE,
          cmds |-> Append(cmds, Sub(s, pos1, strlen(s) - pos1)),
          numPipes |-> Len(cmds)]

\* Returns [ok, ub, cmds, numPipes]; numCmds is Len(cmds) and numPipes the
\* number of pipes added to the caller's counter.
parseInvoke(s) ==
    LET none == [ok |-> TRUE, ub |-> FALSE, cmds |-> <<>>, numPipes |-> 0]
        pos2 == TrimEnd(s, 0, strlen(s) - 1)
        pos1 == SkipSpace(s, 0, pos2)
    IN IF strlen(s) = 0 THEN none
       ELSE IF pos1 > pos2 THEN none
       ELSE parseInvokeLoop(s, pos1, pos1, pos2, <<>>)

\* evalInvoke: parses the invocation and each command segment, runs
\* nothing and returns 0.  cmds are the segments handed to parseCmd.
evalInvoke(s) ==
    LET p == parseInvoke(s)
    IN [ret |-> 0, ub |-> p.ub, cmds |-> p.cmds]

\* ------------------------------------------------------------------------
\* The table of user defined constants
\* ------------------------------------------------------------------------
PATH == <<"P", "A", "T", "H">>

\* The root of the repository, where the shell is assumed to be started.
RepoRoot == <<"/", "r">>

\* Working directories the shell may be started in (getcwd).
Cwds == {<<"/">>, RepoRoot}

\* init(): the table holds PATH at index 0.
init(cwd) == <<[key |-> PATH, val |-> cwd \o <<"/", "b", "i", "n">>]>>

RECURSIVE allAlnum(_, _)
allAlnum(key, i) ==
    IF i < strlen(key) THEN isalnum(At(key, i)) /\ allAlnum(key, i + 1) ELSE TRUE

\* Returns [ok, consts, maxConsts].
addConst(key, val, cs, maxC) ==
    IF strlen(key) > BUFF_MAX - 1 \/ strlen(val) > BUFF_MAX - 1
         \/ ~isalpha(At(key, 0)) \/ ~allAlnum(key, 1)
    THEN [ok |-> FALSE, consts |-> cs, maxConsts |-> maxC]
    ELSE [ok |-> TRUE,
          consts |-> Append(cs, [key |-> key, val |-> val]),
          maxConsts |-> IF Len(cs) + 1 = maxC THEN maxC * 2 ELSE maxC]

\* Linear search: the value of the first entry with the key, else "".
RECURSIVE getConstFrom(_, _, _)
getConstFrom(key, cs, i) ==
    IF i > Len(cs) THEN <<>>
    ELSE IF cs[i].key = key THEN cs[i].val
    ELSE getConstFrom(key, cs, i + 1)

getConst(key, cs) == getConstFrom(key, cs, 1)

\* ------------------------------------------------------------------------
\* evalArg: expand the $NAME references of an argument
\* ------------------------------------------------------------------------
\* A char buffer is the sequence of its bytes, NULs included; the bytes
\* after its end are the zeros the array was initialized with.
BufSet(buf, i, c) ==
    IF i < Len(buf) THEN [buf EXCEPT ![i + 1] = c]
    ELSE buf \o [k \in 1..(i - Len(buf)) |-> NUL] \o <<c>>

\* Copy the characters of str to buf[at], buf[at + 1], ...
RECURSIVE BufWrite(_, _, _)
BufWrite(buf, at, str) ==
    IF Len(str) = 0 THEN buf
    ELSE BufWrite(BufSet(buf, at, Head(str)), at + 1, Tail(str))

\* Index of the first NUL of buf: the length of the C string it holds.
RECURSIVE BufLen(_, _)
BufLen(buf, i) ==
    IF i < Len(buf) /\ buf[i + 1] # NUL THEN BufLen(buf, i + 1) ELSE i

\* The C string held by buf.
BufStr(buf) == SubSeq(buf, 1, BufLen(buf, 0))

strcat(buf, str) ==
    BufSet(BufWrite(buf, BufLen(buf, 0), str), BufLen(buf, 0) + Len(str), NUL)

\* while (i < pos2 && arg[i] != '$') ++i;
RECURSIVE SkipToDollar(_, _, _)
SkipToDollar(arg, i, pos2) ==
    IF i < pos2 /\ At(arg, i) # "$" THEN SkipToDollar(arg, i + 1, pos2) ELSE i

\* while (keyPos2 <= pos2 && isalnum(arg[keyPos2])) ++keyPos2;
RECURSIVE SkipKey(_, _, _)
SkipKey(arg, keyPos2, pos2) ==
    IF keyPos2 <= pos2 /\ isalnum(At(arg, keyPos2))
    THEN SkipKey(arg, keyPos2 + 1, pos2) ELSE keyPos2

\* The main loop of evalArg: returns [pos1, temp, long].
RECURSIVE evalArgLoop(_, _, _, _, _)
evalArgLoop(arg, cs, pos1, i0, temp) ==
    LET pos2 == strlen(arg)
        i == SkipToDollar(arg, i0, pos2)
        keyPos1 == i + 1
        keyPos2 == SkipKey(arg, keyPos1, pos2)
        key == Sub(arg, keyPos1, keyPos2 - keyPos1)
        val == getConst(key, cs)
        t1 == BufWrite(temp, pos1, Sub(arg, pos1, i - pos1))
        t2 == BufSet(t1, i, NUL)
        t3 == strcat(t2, val)
    IN IF pos1 < pos2
       THEN IF i = pos2 THEN [pos1 |-> pos1, temp |-> temp, long |-> FALSE]
            ELSE IF keyPos2 - keyPos1 > BUFF_MAX - 1
            THEN [pos1 |-> pos1, temp |-> temp, long |-> TRUE]
            ELSE evalArgLoop(arg, cs, keyPos2, keyPos2, t3)
       ELSE [pos1 |-> pos1, temp |-> temp, long |-> FALSE]

\* The argument after expansion against the table cs.
evalArg(arg, cs) ==
    LET r == evalArgLoop(arg, cs, 0, 0, <<>>)
        pos2 == strlen(arg)
        temp == IF r.pos1 < pos2
                THEN strcat(r.temp, Sub(arg, r.pos1, pos2 - r.pos1))
                ELSE r.temp
    IN IF r.long THEN arg ELSE BufStr(temp)

\* ------------------------------------------------------------------------
\* Input lines of the evaluator
\* ------------------------------------------------------------------------
AndOp == <<"&", "&">>
OrOp == <<"|", "|">>
SeqOp == <<";">>
AssignOp == <<"=">>

\* Whitespace-delimited tokens a line is built from: a command, a braced
\* command, an unbalanced brace, the operators and the assignment sign.
Tokens == {<<"a">>, <<"{", "b", "}">>, <<"{", "a">>, AndOp, OrOp, SeqOp, AssignOp}

RECURSIVE JoinToks(_)
JoinToks(ts) ==
    IF Len(ts) = 0 THEN <<>>
    ELSE IF Len(ts) = 1 THEN ts[1]
    ELSE ts[1] \o <<" ">> \o JoinToks(Tail(ts))

Brace(l) == <<"{", " ">> \o l \o <<" ", "}">>

\* The lines of at most n tokens separated by single spaces.
TokLines(n) == {JoinToks(ts) : ts \in UNION {[1..k -> Tokens] : k \in 0..n}}

\* An operator character that is not surrounded by whitespace.
NoSpaceLine == <<"a", ";", "b">>

\* A line is a sequence of at most MaxToks tokens, or a shorter one
\* enclosed in braces, or the line without whitespace.
Lines ==
    (TokLines(MaxToks) \cup {Brace(l) : l \in TokLines(MaxToks - 1)}) \cup {NoSpaceLine}

\* ------------------------------------------------------------------------
\* State
\* ------------------------------------------------------------------------
VARIABLES
    line,       \* the input line handed to evalExpr
    stack,      \* C call stack of evalExpr / evalS activations
    ret,        \* value returned by the activation that just returned
    trace,      \* history: calls, returns and command invocations in order
    status,     \* "running", "done", "overflow" or "ub"
    consts,     \* the table of user defined constants
    maxConsts,  \* allocated size of the table
    cwd,        \* working directory of the shell process
    token,      \* the argument last handed to evalArg
    arg,        \* the argument buffer after evalArg
    addOk,      \* what the last addConst returned
    run,        \* the evalCmd activation: its parameters, locals and position
    child,      \* the process forked by evalCmd
    input,      \* the text handed to one of the parsing functions
    parsed      \* what that parsing function returned

evalVars == <<line, stack, ret, trace, status>>
tableVars == <<consts, maxConsts>>
argVars == <<token, arg, addOk>>
cmdVars == <<run, child>>
parseVars == <<input, parsed>>

vars == <<line, stack, ret, trace, status, consts, maxConsts, cwd, token, arg, addOk, run, child,
         input, parsed>>

numConsts == Len(consts)

\* An integer local that has not been assigned / no value returned yet.
NoCode == -1

Frame(fn, text, id) ==
    [fn |-> fn, text |-> text, pc |-> "start", id |-> id,
     left |-> <<>>, op |-> <<>>, right |-> <<>>,
     l_code |-> NoCode, r_code |-> NoCode]

CallEvent(fn, text, id, parent) ==
    [ev |-> "call", fn |-> fn, text |-> text, id |-> id, parent |-> parent, val |-> NoCode]

RetEvent(f, v) ==
    [ev |-> "ret", fn |-> f.fn, text |-> f.text, id |-> f.id, parent |-> 0, val |-> v]

InvokeEvent(f, cmd) ==
    [ev |-> "invoke", fn |-> "evalInvoke", text |-> cmd, id |-> f.id, parent |-> f.id, val |-> 0]

Top == stack[Len(stack)]

Running == status = "running" /\ Len(stack) > 0

\* The top activation, updated to f, calls fn(text).  The stack is finite:
\* a call at depth MaxStack overflows it.
Call(f, fn, text) ==
    /\ ret' = NoCode
    /\ UNCHANGED <<line, consts, maxConsts, cwd, argVars, cmdVars, parseVars>>
    /\ IF Len(stack) >= MaxStack
       THEN /\ status' = "overflow"
            /\ UNCHANGED <<stack, trace>>
       ELSE /\ status' = status
            /\ stack' = Append([stack EXCEPT ![Len(stack)] = f],
                               Frame(fn, text, Len(trace) + 1))
            /\ trace' = Append(trace, CallEvent(fn, text, Len(trace) + 1, f.id))

\* The top activation, updated to f, returns v to its caller after the
\* events evs; cs and maxC are the table it leaves.
ReturnWith(f, v, evs, cs, maxC) ==
    /\ ret' = v
    /\ stack' = SubSeq(stack, 1, Len(stack) - 1)
    /\ trace' = (trace \o evs) \o <<RetEvent(f, v)>>
    /\ status' = IF Len(stack) = 1 THEN "done" ELSE status
    /\ consts' = cs
    /\ maxConsts' = maxC
    /\ UNCHANGED <<line, cwd, argVars, cmdVars, parseVars>>

Return(f, v) == ReturnWith(f, v, <<>>, consts, maxConsts)

\* ------------------------------------------------------------------------
\* evalS
\* ------------------------------------------------------------------------
\* evalS up to its first call or return (lines 672-682), evalInvoke included.
EvalS ==
    /\ Running /\ Top.fn = "evalS" /\ Top.pc = "start"
    /\ LET f == Top
           p == parseS(f.text)
           inv == evalInvoke(p.s)
       IN IF ~p.ok THEN Return(f, 1)
          ELSE IF strlen(p.cmd) = 0
          THEN Call([f EXCEPT !.pc = "tail"], "evalExpr", p.e)
          ELSE IF inv.ub
          THEN /\ status' = "ub"
               /\ UNCHANGED <<line, stack, ret, trace, consts, maxConsts, cwd,
                               argVars, cmdVars, parseVars>>
          ELSE ReturnWith(f, inv.ret,
                          [k \in 1..Len(inv.cmds) |-> InvokeEvent(f, inv.cmds[k])],
                          consts, maxConsts)

\* return evalExpr(e);
EvalSReturn ==
    /\ Running /\ Top.fn = "evalS" /\ Top.pc = "tail" /\ ret # NoCode
    /\ Return(Top, ret)

\* ------------------------------------------------------------------------
\* evalExpr
\* ------------------------------------------------------------------------
\* evalExpr up to its first call or return (lines 686-727).
EvalExpr ==
    /\ Running /\ Top.fn = "evalExpr" /\ Top.pc = "start"
    /\ LET p == parseExpr(Top.text)
           f == [Top EXCEPT !.left = p.s, !.op = p.op, !.right = p.e]
           a == addConst(f.left, f.right, consts, maxConsts)
       IN IF strlen(f.text) = 0 THEN Return(Top, 0)
          ELSE IF strlen(f.op) = 0
          THEN Call([f EXCEPT !.pc = "tail"], "evalS", f.text)
          ELSE IF strlen(f.right) = 0 THEN Return(f, 1)
          ELSE IF f.op = AndOp THEN Call([f EXCEPT !.pc = "and"], "evalS", f.left)
          ELSE IF f.op = OrOp THEN Call([f EXCEPT !.pc = "or"], "evalS", f.left)
          ELSE IF f.op = SeqOp THEN Call([f EXCEPT !.pc = "seq"], "evalS", f.left)
          ELSE IF f.op = AssignOp
          THEN ReturnWith(f, IF a.ok THEN 0 ELSE 1, <<>>, a.consts, a.maxConsts)
          ELSE Return(f, 0)

\* && after evalS(left) returned: evaluate right only if l_code == 0.
AndEvalsRight(l_code) == l_code = 0

\* Lines 704-707 and 728.
EvalExprAnd ==
    /\ Running /\ Top.fn = "evalExpr" /\ Top.pc = "and" /\ ret # NoCode
    /\ LET f == [Top EXCEPT !.l_code = ret]
       IN IF AndEvalsRight(f.l_code)
          THEN Call([f EXCEPT !.pc = "and_r"], "evalExpr", f.right)
          ELSE Return(f, 0)

\* r_code = evalExpr(right); then falls through to the final return 0.
EvalExprAndRight ==
    /\ Running /\ Top.fn = "evalExpr" /\ Top.pc = "and_r" /\ ret # NoCode
    /\ Return([Top EXCEPT !.r_code = ret], 0)

\* Mutant of OrSkipsRight: the right operand is always evaluated.
OrSkipsRightMut(l_code) == FALSE

\* || after evalS(left) returned: return 0 without evaluating right.
OrSkipsRight(l_code) == l_code = 0

\* Lines 710-713.
EvalExprOr ==
    /\ Running /\ Top.fn = "evalExpr" /\ Top.pc = "or" /\ ret # NoCode
    /\ LET f == [Top EXCEPT !.l_code = ret]
       IN IF OrSkipsRight(f.l_code)
          THEN Return(f, 0)
          ELSE Call([f EXCEPT !.pc = "tail"], "evalExpr", f.right)

\* Mutant of EvalExprSeq: a failing left statement ends the sequence.
EvalExprSeqMut ==
    /\ Running /\ Top.fn = "evalExpr" /\ Top.pc = "seq" /\ ret # NoCode
    /\ IF ret = 0
       THEN Call([Top EXCEPT !.pc = "tail"], "evalExpr", Top.right)
       ELSE Return(Top, ret)

\* Lines 717-718: the result of evalS(left) is discarded.
EvalExprSeq ==
    /\ Running /\ Top.fn = "evalExpr" /\ Top.pc = "seq" /\ ret # NoCode
    /\ Call([Top EXCEPT !.pc = "tail"], "evalExpr", Top.right)

\* return evalS(expr); / return evalExpr(right);
EvalExprReturn ==
    /\ Running /\ Top.fn = "evalExpr" /\ Top.pc = "tail" /\ ret # NoCode
    /\ Return(Top, ret)

\* No argument has been expanded and no addConst call made.
ArgIdle ==
    /\ token = <<>>
    /\ arg = <<>>
    /\ addOk = "none"

\* No command is being run.
CmdIdle ==
    /\ run = [pc |-> "idle"]
    /\ child = [state |-> "none", code |-> NoCode, ownGroup |-> FALSE, execd |-> FALSE]

\* No parsing function has been called.
ParseIdle ==
    /\ input = <<>>
    /\ parsed = [fn |-> "none"]

\* The evaluator has no line.
EvalIdle ==
    /\ line = <<>>
    /\ stack = <<>>
    /\ trace = <<>>
    /\ ret = NoCode
    /\ status = "idle"

\* init() in one of the working directories dirs.
TableInit(dirs) ==
    /\ cwd \in dirs
    /\ consts = init(cwd)
    /\ maxConsts = INIT_CONSTS

Init ==
    /\ TableInit({RepoRoot})
    /\ line \in Lines
    /\ stack = <<Frame("evalExpr", line, 1)>>
    /\ trace = <<CallEvent("evalExpr", line, 1, 0)>>
    /\ ret = NoCode
    /\ status = "running"
    /\ ArgIdle
    /\ CmdIdle
    /\ ParseIdle

Next ==
    \/ EvalExpr
    \/ EvalExprAnd
    \/ EvalExprAndRight
    \/ EvalExprOr
    \/ EvalExprSeq
    \/ EvalExprReturn
    \/ EvalS
    \/ EvalSReturn

Spec == Init /\ [][Next]_vars

\* ------------------------------------------------------------------------
\* Reading the history
\* ------------------------------------------------------------------------
Calls == {i \in DOMAIN trace : trace[i].ev = "call"}

\* The value activation id returned, NoCode while it has not returned.
RetOf(id) ==
    IF \E j \in DOMAIN trace : trace[j].ev = "ret" /\ trace[j].id = id
    THEN trace[CHOOSE j \in DOMAIN trace : trace[j].ev = "ret" /\ trace[j].id = id].val
    ELSE NoCode

\* Position of the return of activation id in the history, 0 if none.
RetPos(id) ==
    IF \E j \in DOMAIN trace : trace[j].ev = "ret" /\ trace[j].id = id
    THEN CHOOSE j \in DOMAIN trace : trace[j].ev = "ret" /\ trace[j].id = id
    ELSE 0

Returned(id) == RetPos(id) # 0

\* The calls of fn made directly by activation id.
Child(id, fn) == {j \in Calls : trace[j].parent = id /\ trace[j].fn = fn}

\* The evalExpr activations whose text parseExpr splits at operator op
\* with a non-empty right expression.
OpActs(op) ==
    {i \in Calls : /\ trace[i].fn = "evalExpr"
                   /\ parseExpr(trace[i].text).op = op
                   /\ parseExpr(trace[i].text).e # <<>>}

\* The command segments invoked so far, in order.
Invoked ==
    LET evs == SelectSeq(trace, LAMBDA e : e.ev = "invoke")
    IN [k \in 1..Len(evs) |-> evs[k].text]

\* ------------------------------------------------------------------------
\* C1: for every expression a && b, evalExpr returns b's result when
\* evaluating a returned 0 and a's nonzero code when a returned nonzero.
\* ------------------------------------------------------------------------
C1_AndResult ==
    \A i \in OpActs(AndOp) :
        (Returned(i) /\ parseExpr(trace[i].text).s # <<>>) =>
            \A l \in Child(i, "evalS") :
                /\ RetOf(l) = 0 =>
                       \E r \in Child(i, "evalExpr") : RetOf(i) = RetOf(r)
                /\ RetOf(l) > 0 => RetOf(i) = RetOf(l)

\* ------------------------------------------------------------------------
\* C2: short-circuit.  The right operand is never evaluated for a && b
\* when a returned nonzero nor for a || b when a returned 0; in that ||
\* case the result is 0, and when a returned nonzero under || the
\* result is b's result.
\* ------------------------------------------------------------------------
C2_ShortCircuit ==
    /\ \A i \in OpActs(AndOp) : \A l \in Child(i, "evalS") :
           RetOf(l) > 0 => Child(i, "evalExpr") = {}
    /\ \A i \in OpActs(OrOp) : \A l \in Child(i, "evalS") :
           /\ RetOf(l) = 0 =>
                  /\ Child(i, "evalExpr") = {}
                  /\ Returned(i) => RetOf(i) = 0
           /\ (RetOf(l) > 0 /\ Returned(i)) =>
                  \E r \in Child(i, "evalExpr") :
                      /\ trace[r].text = parseExpr(trace[i].text).e
                      /\ Returned(r)
                      /\ RetOf(i) = RetOf(r)

\* a || b completed with a returning 0 after invoking a command.
C2_Witness ==
    /\ status = "done"
    /\ \E i \in OpActs(OrOp) : \E l \in Child(i, "evalS") :
           RetOf(l) = 0 /\ Returned(i) /\ Len(Invoked) > 0

AssignValues == {<<"a">>, <<"{", "b", "}">>, <<"{", "a">>}

C4_AssignRoundTrip ==
    \A v \in AssignValues :
        (status = "done" /\ line = JoinToks(<<<<"a">>, AssignOp, v>>))
            => evalArg(<<"$", "a">>, consts) = v

\* ------------------------------------------------------------------------
\* C5: evaluating { {A} ; {B} } evaluates A, then B, each exactly once
\* and returns B's status.
\* ------------------------------------------------------------------------
NestedLine == Brace(JoinToks(<<<<"{", "b", "}">>, SeqOp, <<"{", "b", "}">>>>))

C5_BraceNesting ==
    (line = NestedLine /\ status # "running") =>
        /\ status = "done"
        /\ Invoked = <<<<"b">>, <<"b">>>>
        /\ ret = 0

\* ------------------------------------------------------------------------
\* C6: a line that starts with { and has no matching } evaluates to a
\* nonzero status and no command is invoked.
\* ------------------------------------------------------------------------
Unbalanced(l) ==
    LET pos2 == TrimEnd(l, 0, strlen(l) - 1)
        pos1 == SkipSpace(l, 0, pos2)
    IN /\ At(l, pos1) = "{"
       /\ matchBraceLoop(l, pos1, 1, strlen(l) - 1).count # 0

C6_UnbalancedBrace ==
    Unbalanced(line) =>
        /\ Invoked = <<>>
        /\ status # "running" => (status = "done" /\ ret # 0)

\* ------------------------------------------------------------------------
\* C7: if a line contains a parse error, evaluating it returns nonzero
\* and no statement of the line is executed.
\* ------------------------------------------------------------------------
\* An unbalanced leading brace, an operator with an empty left operand or
\* an operator with a missing right operand, here or further right.
RECURSIVE HasParseError(_)
HasParseError(l) ==
    LET p == parseExpr(l)
    IN \/ Unbalanced(l)
       \/ /\ p.op # <<>>
          /\ \/ p.s = <<>>
             \/ p.e = <<>>
             \/ HasParseError(p.e)

C7_NoPartialExecution ==
    HasParseError(line) =>
        /\ Invoked = <<>>
        /\ status # "running" => (status = "done" /\ ret # 0)

\* ------------------------------------------------------------------------
\* The constant table and argument expansion as operations
\* ------------------------------------------------------------------------
\* Maximum number of addConst calls after init().
MaxDefs == 1
\* Maximum number of pieces an argument token is built from.
MaxPieces == 3

\* Keys and values handed to addConst; "1" is not a valid key.
DefKeys == {<<"A">>, PATH, <<"1">>}
DefVals == {<<"x", "y", "z">>, <<"$", "A">>}

\* Pieces of an argument token: references, a lone $, a literal character.
Pieces == {<<"$", "P", "A", "T", "H">>, <<"$", "A">>, <<"$">>, <<"-">>}

RECURSIVE Concat(_)
Concat(ps) == IF Len(ps) = 0 THEN <<>> ELSE Head(ps) \o Concat(Tail(ps))

ArgTokens == {Concat(ps) : ps \in UNION {[1..k -> Pieces] : k \in 0..MaxPieces}}

\* A call addConst(key, val).
AddConst(key, val) ==
    /\ numConsts <= MaxDefs
    /\ LET a == addConst(key, val, consts, maxConsts)
       IN /\ consts' = a.consts
          /\ maxConsts' = a.maxConsts
          /\ addOk' = IF a.ok THEN "true" ELSE "false"
    /\ token' = <<>>
    /\ arg' = <<>>
    /\ UNCHANGED <<cwd, evalVars, cmdVars, parseVars>>

\* A call evalArg(arg) on a buffer holding tok.
EvalArg(tok) ==
    /\ token' = tok
    /\ arg' = evalArg(tok, consts)
    /\ addOk' = "none"
    /\ UNCHANGED <<cwd, tableVars, evalVars, cmdVars, parseVars>>

InitArg ==
    /\ TableInit(Cwds)
    /\ EvalIdle
    /\ ArgIdle
    /\ CmdIdle
    /\ ParseIdle

NextArg ==
    \/ \E key \in DefKeys, val \in DefVals : AddConst(key, val)
    \/ \E tok \in ArgTokens : EvalArg(tok)

SpecArg == InitArg /\ [][NextArg]_vars

\* ------------------------------------------------------------------------
\* C8: evalArg returns the token with each $name (name the maximal
\* alphanumeric run after $) replaced by the table's value for name, the
\* empty string if undefined; the other characters are kept in order and
\* substituted values are not scanned again.
\* ------------------------------------------------------------------------
RECURSIVE NameEnd(_, _)
NameEnd(tok, k) ==
    IF k <= Len(tok) /\ isalnum(tok[k]) THEN NameEnd(tok, k + 1) ELSE k

RECURSIVE Expand(_, _)
Expand(tok, cs) ==
    IF Len(tok) = 0 THEN <<>>
    ELSE IF Head(tok) = "$"
    THEN LET e == NameEnd(tok, 2)
         IN getConst(SubSeq(tok, 2, e - 1), cs) \o Expand(SubSeq(tok, e, Len(tok)), cs)
    ELSE <<Head(tok)>> \o Expand(Tail(tok), cs)

C8_Expansion == addOk = "none" => arg = Expand(token, consts)

\* ------------------------------------------------------------------------
\* C9: after init() and any sequence of addConst calls no two entries of
\* the table have the same key.
\* ------------------------------------------------------------------------
C9_KeysUnique ==
    \A i, j \in 1..numConsts : i # j => consts[i].key # consts[j].key

\* ------------------------------------------------------------------------
\* evalCmd: resolve the executable, fork, exec and wait
\* ------------------------------------------------------------------------
\* Largest exit status a program of the model terminates with.
MaxExit == 2

\* Commands: found through PATH, given as a path, the cd builtin.
Cmds == {<<"l", "s">>, <<"/", "x">>, <<"c", "d">>}
\* Candidates for argv[1]: an existing directory and a missing one.
Dirs == {<<"/", "d">>}
ArgDirs == Dirs \cup {<<"/", "n">>}

\* strtok(path, ":"): the non-empty pieces of path between colons.
RECURSIVE strtok(_, _)
strtok(path, cur) ==
    IF Len(path) = 0 THEN (IF Len(cur) = 0 THEN <<>> ELSE <<cur>>)
    ELSE IF Head(path) = ":"
    THEN (IF Len(cur) = 0 THEN <<>> ELSE <<cur>>) \o strtok(Tail(path), <<>>)
    ELSE strtok(Tail(path), Append(cur, Head(path)))

\* The PATH search loop: the first candidate that is executable, else the
\* last candidate generated.
RECURSIVE searchPath(_, _, _, _)
searchPath(toks, cmd, exes, execPath) ==
    IF Len(toks) = 0 THEN execPath
    ELSE LET cand == (Head(toks) \o <<"/">>) \o cmd
         IN IF cand \in exes THEN cand
            ELSE searchPath(Tail(toks), cmd, exes, cand)

isPath(cmd) == \E i \in 1..Len(cmd) : cmd[i] = "/"

resolve(cmd, path, exes) ==
    IF isPath(cmd) THEN cmd ELSE searchPath(strtok(path, <<>>), cmd, exes, <<>>)

\* Executables the file system may hold: one in the PATH directory, one
\* reached by an absolute path.
ExeCandidates(c) == {(init(c)[1].val \o <<"/">>) \o <<"l", "s">>, <<"/", "x">>}

CmdReturn(r, v) == [r EXCEPT !.pc = "returned", !.result = v]

\* Lines 593-641 and 667-668: the cd builtin, the search for the
\* executable and the access() test.
EvalCmd ==
    /\ run.pc = "start"
    /\ LET path == consts[1].val
           argv == run.argv
           argc == Len(argv)
           execPath == resolve(run.cmd, path, run.exes)
       IN IF At(argv[1], 0) = "c" /\ At(argv[1], 1) = "d"
          THEN IF argc # 2
               THEN run' = CmdReturn(run, 1) /\ cwd' = cwd
               ELSE IF argv[2] \in Dirs
               THEN run' = CmdReturn(run, 0) /\ cwd' = argv[2]
               ELSE run' = CmdReturn(run, 1) /\ cwd' = cwd
          ELSE /\ cwd' = cwd
               /\ IF execPath \in run.exes
                  THEN run' = [run EXCEPT !.pc = "fork", !.execPath = execPath]
                  ELSE run' = CmdReturn([run EXCEPT !.execPath = execPath], 1)
    /\ UNCHANGED <<child, tableVars, evalVars, argVars, parseVars>>

\* pid_t pid = fork(); it may fail and return -1.
Fork ==
    /\ run.pc = "fork"
    /\ \E okFork \in BOOLEAN :
           IF okFork
           THEN /\ run' = [run EXCEPT !.pc = "parent", !.pid = 1]
                /\ child' = [state |-> "forked", code |-> NoCode,
                             ownGroup |-> FALSE, execd |-> FALSE]
           ELSE /\ run' = [run EXCEPT !.pc = "parent", !.pid = -1]
                /\ child' = child
    /\ UNCHANGED <<cwd, tableVars, evalVars, argVars, parseVars>>

\* Child, lines 646-654: setpgid for a background command, then execv; if
\* execv fails the child exits with 127.
ChildExec ==
    /\ child.state = "forked"
    /\ \E okExec \in BOOLEAN :
           child' = [state |-> IF okExec THEN "running" ELSE "exited",
                     code |-> IF okExec THEN NoCode ELSE 127,
                     ownGroup |-> run.isBg, execd |-> okExec]
    /\ UNCHANGED <<run, cwd, tableVars, evalVars, argVars, parseVars>>

\* The program run by the child terminates with exit status n.
ChildExit(n) ==
    /\ child.state = "running"
    /\ child' = [child EXCEPT !.state = "exited", !.code = n]
    /\ UNCHANGED <<run, cwd, tableVars, evalVars, argVars, parseVars>>

\* Parent, lines 658-659: a background command is not waited for.
ParentBackground ==
    /\ run.pc = "parent" /\ run.isBg
    /\ run' = CmdReturn(run, 0)
    /\ UNCHANGED <<child, cwd, tableVars, evalVars, argVars, parseVars>>

\* The value evalCmd returns once waitpid(pid, 0, 0) has returned r.
WaitResult(r, retVal) == IF r = -1 THEN 1 ELSE retVal

\* Parent, lines 661-664: waitpid blocks until the child has terminated;
\* with pid -1 and no child it fails.
ParentWait ==
    /\ run.pc = "parent" /\ ~run.isBg
    /\ \/ run.pid = -1 /\ run' = CmdReturn(run, WaitResult(-1, run.retVal))
       \/ /\ run.pid # -1 /\ child.state = "exited"
          /\ run' = CmdReturn(run, WaitResult(run.pid, run.retVal))
    /\ UNCHANGED <<child, cwd, tableVars, evalVars, argVars, parseVars>>

InitCmd ==
    /\ TableInit(Cwds)
    /\ EvalIdle
    /\ ArgIdle
    /\ ParseIdle
    /\ child = [state |-> "none", code |-> NoCode, ownGroup |-> FALSE, execd |-> FALSE]
    /\ \E cmd \in Cmds, isBg \in BOOLEAN, exes \in SUBSET ExeCandidates(cwd),
          args \in {<<>>} \cup {<<d>> : d \in ArgDirs} :
           run = [pc |-> "start", cmd |-> cmd, argv |-> <<cmd>> \o args,
                  isBg |-> isBg, exes |-> exes, execPath |-> <<>>,
                  pid |-> 0, retVal |-> 0, result |-> NoCode]

NextCmd ==
    \/ EvalCmd
    \/ Fork
    \/ ChildExec
    \/ \E n \in 0..MaxExit : ChildExit(n)
    \/ ParentBackground
    \/ ParentWait

SpecCmd == InitCmd /\ [][NextCmd]_vars

\* ------------------------------------------------------------------------
\* C10: a foreground command whose executable is found is waited for and
\* evalCmd returns the exit status of the child.
\* ------------------------------------------------------------------------
C10_ForegroundStatus ==
    (run.pc = "returned" /\ ~run.isBg /\ child.state # "none" /\ child.execd) =>
        /\ child.state = "exited"
        /\ run.result = child.code

\* ------------------------------------------------------------------------
\* parseCmd: split a command segment into the command and its arguments
\* ------------------------------------------------------------------------
MAX_ARGS == 1024

\* The argument loop (lines 359-391).  argv holds the entries stored so
\* far, i is Len(argv).  ub marks strncpy called with the length -1
\* (matchQuote left tokPos2 on the opening quote).
RECURSIVE parseCmdLoop(_, _, _, _, _, _)
parseCmdLoop(s, tokPos2, pos2, maxArgs, cs, r) ==
    IF Len(r.argv) < maxArgs - 1 /\ tokPos2 < pos2
    THEN LET tokPos1 == SkipSpace(s, tokPos2, pos2 - 1)
             mq == matchQuote(s, tokPos1, pos2)
             tokEnd == SkipToken(s, tokPos1, pos2)
         IN IF At(s, tokPos1) = "\""
            THEN IF ~mq.ok THEN [r EXCEPT !.ok = FALSE]
                 ELSE IF mq.pos - tokPos1 - 1 < 0 THEN [r EXCEPT !.ub = TRUE]
                 ELSE parseCmdLoop(s, mq.pos + 1, pos2, maxArgs, cs,
                          [r EXCEPT !.argv =
                              Append(@, Sub(s, tokPos1 + 1, mq.pos - tokPos1 - 1))])
            ELSE parseCmdLoop(s, tokEnd, pos2, maxArgs, cs,
                     [r EXCEPT !.argv =
                         Append(@, evalArg(Sub(s, tokPos1, tokEnd - tokPos1), cs))])
    ELSE r

\* Returns [ok, ub, cmd, argv, isBg]; numArgs is Len(argv).
parseCmd(s, maxArgs, cs) ==
    LET none == [ok |-> TRUE, ub |-> FALSE, cmd |-> <<>>, argv |-> <<>>, isBg |-> FALSE]
        end == TrimEnd(s, 0, strlen(s) - 1)
        pos1 == SkipSpace(s, 0, end)
        isBg == end - pos1 > 0 /\ At(s, end) = "&" /\ At(s, end - 1) = " "
        pos2 == IF isBg THEN TrimEnd(s, pos1, end - 1) ELSE end
        tokPos2 == SkipToken(s, pos1, pos2)
        cmd == Sub(s, pos1, tokPos2 - pos1)
    IN IF strlen(s) = 0 THEN none
       ELSE IF pos1 > end THEN none
       ELSE parseCmdLoop(s, tokPos2, pos2, maxArgs, cs,
                [none EXCEPT !.cmd = cmd, !.argv = <<cmd>>, !.isBg = isBg])

\* ------------------------------------------------------------------------
\* The parsing functions as operations
\* ------------------------------------------------------------------------
\* Maximum number of whitespace-separated tokens of a text to be parsed.
MaxParseToks == 4

\* Tokens a text is built from: a word, the operators, the pipe, a word
\* that starts with the pipe character, a quote, the braces, a redirection
\* and the background sign.
ParseTokens ==
    {<<"a">>, SeqOp, AndOp, <<"|">>, <<"|", "b">>, <<"\"">>, <<"{">>, <<"}">>,
     <<"<">>, <<"&">>}

\* The invocation parsed by the test driver (line 745).
DriverLine ==
    JoinToks(<<<<"t", "e", "s", "t">>,
               <<"<">>,
               <<"t", "e", "s", "t", "i", "n", "g">>,
               <<"t", "e", "s", "t">>,
               <<"t", "e", "s", "t">>,
               <<"|">>,
               <<"t", "e", "s", "t", "e", "r">>,
               <<"m", "u", "c", "h">>,
               <<"t", "e", "s", "t">>,
               <<">", ">">>,
               <<"s", "o">>,
               <<"t", "e", "s", "t">>,
               <<"|">>,
               <<"p", "l", "e", "a", "s", "e">>,
               <<"<", "<">>,
               <<"w", "o", "r", "k">>>>)

\* The texts of at most MaxParseToks tokens separated by single spaces,
\* bare or surrounded by whitespace, and the driver's line.
ParseTexts ==
    LET ts == {JoinToks(t) : t \in UNION {[1..k -> ParseTokens] : k \in 0..MaxParseToks}}
    IN ts \cup {(<<" ">> \o t) \o <<" ">> : t \in ts} \cup {DriverLine}

\* What the process can do once strncpy is called with a negative length:
\* die on the out-of-bounds write, or go on.
UBOutcomes == {"crashed", "returned"}

ParseExpr ==
    /\ parsed.fn = "none"
    /\ parsed' = [fn |-> "parseExpr", outcome |-> "returned", r |-> parseExpr(input)]
    /\ UNCHANGED <<input, cwd, tableVars, evalVars, argVars, cmdVars>>

\* numPipes is 0 before the call, as in the driver.
ParseInvoke ==
    /\ parsed.fn = "none"
    /\ LET r == parseInvoke(input)
       IN \E o \in IF r.ub THEN UBOutcomes ELSE {"returned"} :
              parsed' = [fn |-> "parseInvoke", outcome |-> o, r |-> r]
    /\ UNCHANGED <<input, cwd, tableVars, evalVars, argVars, cmdVars>>

\* After the undefined copy parseCmd, if it returns at all, may report
\* either result.
ParseCmd ==
    /\ parsed.fn = "none"
    /\ LET r == parseCmd(input, MAX_ARGS, consts)
       IN \/ /\ ~r.ub
             /\ parsed' = [fn |-> "parseCmd", outcome |-> "returned", r |-> r]
          \/ /\ r.ub
             /\ \/ parsed' = [fn |-> "parseCmd", outcome |-> "crashed", r |-> r]
                \/ \E ok \in BOOLEAN :
                       parsed' = [fn |-> "parseCmd", outcome |-> "returned",
                                  r |-> [r EXCEPT !.ok = ok]]
    /\ UNCHANGED <<input, cwd, tableVars, evalVars, argVars, cmdVars>>

InitParse ==
    /\ TableInit({RepoRoot})
    /\ EvalIdle
    /\ ArgIdle
    /\ CmdIdle
    /\ input \in ParseTexts
    /\ parsed = [fn |-> "none"]

NextParse ==
    \/ ParseExpr
    \/ ParseInvoke
    \/ ParseCmd

SpecParse == InitParse /\ [][NextParse]_vars

\* ------------------------------------------------------------------------
\* Reading a text: whitespace, tokens, quotes and braces
\* ------------------------------------------------------------------------
RECURSIVE TrimLeft(_)
TrimLeft(t) == IF Len(t) > 0 /\ isspace(Head(t)) THEN TrimLeft(Tail(t)) ELSE t

RECURSIVE TrimRight(_)
TrimRight(t) ==
    IF Len(t) > 0 /\ isspace(t[Len(t)]) THEN TrimRight(SubSeq(t, 1, Len(t) - 1)) ELSE t

\* t without its leading and trailing whitespace.
Trim(t) == TrimRight(TrimLeft(t))

\* The n characters at index p are a whitespace-delimited token of t.
IsToken(t, p, n) ==
    /\ p >= 0 /\ n > 0 /\ p + n <= Len(t)
    /\ \A k \in p..(p + n - 1) : ~isspace(At(t, k))
    /\ p = 0 \/ isspace(At(t, p - 1))
    /\ p + n = Len(t) \/ isspace(At(t, p + n))

\* Brace depth and quote state in front of index p: braces inside a
\* quoted string do not count.
RECURSIVE Context(_, _)
Context(t, p) ==
    IF p <= 0 THEN [depth |-> 0, quoted |-> FALSE]
    ELSE LET c == Context(t, p - 1)
             ch == At(t, p - 1)
         IN IF ch = "\"" THEN [c EXCEPT !.quoted = ~c.quoted]
            ELSE IF c.quoted THEN c
            ELSE IF ch = "{" THEN [c EXCEPT !.depth = c.depth + 1]
            ELSE IF ch = "}" THEN [c EXCEPT !.depth = c.depth - 1]
            ELSE c

\* Every brace of t is matched and every quote closed.
WellFormed(t) ==
    /\ \A p \in 0..Len(t) : Context(t, p).depth >= 0
    /\ Context(t, Len(t)) = [depth |-> 0, quoted |-> FALSE]

\* ------------------------------------------------------------------------
\* C11: parseExpr splits at the leftmost whitespace-delimited operator
\* token (&&, ||, ;) that lies outside every braced region and outside
\* every double-quoted string: left is the trimmed text before it, right
\* the trimmed remainder; an operator token inside braces or quotes is
\* never the split point, and without such an operator the result is
\* (trimmed text, no operator, empty).
\* ------------------------------------------------------------------------
\* Length of the operator token at index p, 0 if there is none.
OpLenAt(t, p) ==
    IF IsToken(t, p, 1) /\ Sub(t, p, 1) = SeqOp THEN 1
    ELSE IF IsToken(t, p, 2) /\ Sub(t, p, 2) \in {AndOp, OrOp} THEN 2
    ELSE 0

\* Positions of the operator tokens outside braces and quotes.
TopOps(t) ==
    {p \in 0..(Len(t) - 1) :
        /\ OpLenAt(t, p) > 0
        /\ Context(t, p) = [depth |-> 0, quoted |-> FALSE]}

SplitPoint(t) == CHOOSE p \in TopOps(t) : \A q \in TopOps(t) : p <= q

ExprSplit(t) ==
    IF TopOps(t) = {}
    THEN [ok |-> TRUE, s |-> Trim(t), op |-> <<>>, e |-> <<>>]
    ELSE LET p == SplitPoint(t)
             n == OpLenAt(t, p)
         IN [ok |-> TRUE, s |-> Trim(Sub(t, 0, p)), op |-> Sub(t, p, n),
             e |-> Trim(Sub(t, p + n, Len(t) - p - n))]

C11_SplitPoint ==
    (parsed.fn = "parseExpr" /\ WellFormed(input)) => parsed.r = ExprSplit(input)

\* ------------------------------------------------------------------------
\* C12: for a non-empty invocation whose segments are all non-empty,
\* parseInvoke splits exactly at the whitespace-delimited tokens equal to
\* | : with k such tokens it returns k + 1 trimmed segments in order and
\* adds k to the pipe count; redirections stay inside their segment.
\* ------------------------------------------------------------------------
IsPipeToken(t, p) == IsToken(t, p, 1) /\ At(t, p) = "|"

\* The segments of t from index start on, i being the scan position.
RECURSIVE Segments(_, _, _)
Segments(t, i, start) ==
    IF i >= Len(t) THEN <<Trim(Sub(t, start, Len(t) - start))>>
    ELSE IF IsPipeToken(t, i)
    THEN <<Trim(Sub(t, start, i - start))>> \o Segments(t, i + 1, i + 1)
    ELSE Segments(t, i + 1, start)

C12_PipelineSplit ==
    LET segs == Segments(input, 0, 0)
    IN (parsed.fn = "parseInvoke" /\ \A k \in DOMAIN segs : segs[k] # <<>>) =>
           /\ parsed.outcome = "returned"
           /\ parsed.r.ok
           /\ parsed.r.cmds = segs
           /\ parsed.r.numPipes = Len(segs) - 1

\* ------------------------------------------------------------------------
\* C13: every argument token of a segment that begins with a quote either
\* yields exactly one argv entry, the text up to the next quote with inner
\* whitespace kept and the quotes stripped, or, when the segment has no
\* later quote (also when the opening quote is its last character),
\* parseCmd returns false with argv holding the arguments parsed so far.
\* ------------------------------------------------------------------------
\* Index of the last character of the arguments of segment s: trailing
\* whitespace and a trailing background sign are not arguments.
ArgsEnd(s) ==
    LET end == TrimEnd(s, 0, strlen(s) - 1)
        pos1 == SkipSpace(s, 0, end)
    IN IF end - pos1 > 0 /\ At(s, end) = "&" /\ At(s, end - 1) = " "
       THEN TrimEnd(s, pos1, end - 1) ELSE end

\* Index of the first quote at or after i and up to end, -1 if none.
RECURSIVE NextQuote(_, _, _)
NextQuote(s, i, end) ==
    IF i > end THEN -1
    ELSE IF At(s, i) = "\"" THEN i
    ELSE NextQuote(s, i + 1, end)

\* The arguments of s from index i on, after the entries of argv.
RECURSIVE Arguments(_, _, _, _, _)
Arguments(s, i, end, argv, cs) ==
    LET p == SkipSpace(s, i, end)
        q == NextQuote(s, p + 1, end)
        e == SkipToken(s, p, end)
    IN IF p > end THEN [ok |-> TRUE, argv |-> argv]
       ELSE IF At(s, p) = "\""
       THEN IF q = -1 THEN [ok |-> FALSE, argv |-> argv]
            ELSE Arguments(s, q + 1, end, Append(argv, Sub(s, p + 1, q - p - 1)), cs)
       ELSE Arguments(s, e, end, Append(argv, evalArg(Sub(s, p, e - p), cs)), cs)

\* The segment has an argument that begins with a quote.
HasQuotedArg(s) ==
    LET end == ArgsEnd(s)
        c == SkipToken(s, SkipSpace(s, 0, end), end)
    IN \E p \in c..end : At(s, p) = "\"" /\ isspace(At(s, p - 1))
                          /\ ~Context(s, p).quoted

C13_QuotedArgs ==
    (parsed.fn = "parseCmd" /\ HasQuotedArg(input)) =>
        LET end == ArgsEnd(input)
            c == SkipToken(input, SkipSpace(input, 0, end), end)
            a == Arguments(input, c, end, <<parsed.r.cmd>>, consts)
        IN /\ parsed.outcome = "returned"
           /\ parsed.r.ok = a.ok
           /\ parsed.r.argv = a.argv

\* ------------------------------------------------------------------------
\* C14: the mutual recursion of evalExpr and evalS terminates: every
\* evalExpr call made below another evalExpr activation is on a strictly
\* shorter text, so the stack stays bounded and evalExpr returns a status.
\* ------------------------------------------------------------------------
\* The evalExpr activation in whose course call j was made: the caller of
\* j, or the caller of the evalS activation that made it; 0 at the top.
Enclosing(j) ==
    LET p == trace[j].parent
    IN IF p = 0 THEN 0
       ELSE IF trace[p].fn = "evalExpr" THEN p
       ELSE trace[p].parent

C14_Terminates ==
    /\ status # "overflow"
    /\ \A j \in Calls :
           (trace[j].fn = "evalExpr" /\ Enclosing(j) # 0) =>
               strlen(trace[j].text) < strlen(trace[Enclosing(j)].text)

====
